---------------------------- MODULE Spec2Model ----------------------------
(***************************************************************************)
(* A model of the call-parse front end: the lexer (src/src/lexer.rs), the  *)
(* recursive-descent parser (src/src/parser.rs), source positions          *)
(* (src/src/position.rs) and the closure stack of the IR compiler          *)
(* (src/src/ir.rs).                                                        *)
(*                                                                         *)
(* A character is a one-character string; a text is a sequence of          *)
(* characters.  A byte that has no printable form is written "<n>".        *)
(***************************************************************************)
EXTENDS Integers, Sequences, FiniteSets, TLC

VARIABLES
    input,          \* the text handed to Lexer::new
    base,           \* the text input was derived from (equal to input unless filler was inserted)
    text,           \* Lexer.text: the characters not yet consumed
    ln,             \* Lexer.ln
    col,            \* Lexer.col
    tokens,         \* the vector built by Lexer::lex
    lexerr,         \* the Located<LexError> returned by Lexer::lex, or NoError
    ast,            \* the result of Program::parse, or NoResult
    phase,          \* "lex", "lexed", "lexerr", "done" for the pipeline; "ir" for the compiler
    closure_stack,  \* IRCompiler.closure_stack
    registers,      \* IRCompiler.registers
    labels,         \* IRCompiler.labels
    returned,       \* the value of the last pop_closure call
    saved           \* history: at each push_closure not yet popped, the frame that was active

vars == <<input, base, text, ln, col, tokens, lexerr, ast, phase,
          closure_stack, registers, labels, returned, saved>>

lexvars == <<input, base, text, ln, col, tokens, lexerr, ast>>
irvars == <<closure_stack, registers, labels, returned, saved>>

(***************************************************************************)
(* Characters                                                              *)
(***************************************************************************)
Digits == <<"0", "1", "2", "3", "4", "5", "6", "7", "8", "9">>

Lower == {"a", "b", "c", "d", "e", "f", "g", "h", "i", "j", "k", "l", "m",
          "n", "o", "p", "q", "r", "s", "t", "u", "v", "w", "x", "y", "z"}

Upper == {"A", "B", "C", "D", "E", "F", "G", "H", "I", "J", "K", "L", "M",
          "N", "O", "P", "Q", "R", "S", "T", "U", "V", "W", "X", "Y", "Z"}

\* The printable ASCII characters, code 32 to 126, in code order (the grave
\* accent, code 96, cannot be written in a string here and is written "<96>").
Printable ==
    <<" ", "!", "\"", "#", "$", "%", "&", "'", "(", ")", "*", "+", ",", "-", ".", "/",
      "0", "1", "2", "3", "4", "5", "6", "7", "8", "9", ":", ";", "<", "=", ">", "?",
      "@", "A", "B", "C", "D", "E", "F", "G", "H", "I", "J", "K", "L", "M", "N", "O",
      "P", "Q", "R", "S", "T", "U", "V", "W", "X", "Y", "Z", "[", "\\", "]", "^", "_",
      "<96>", "a", "b", "c", "d", "e", "f", "g", "h", "i", "j", "k", "l", "m", "n", "o",
      "p", "q", "r", "s", "t", "u", "v", "w", "x", "y", "z", "{", "|", "}", "~">>

\* char::is_ascii_digit
IsDigit(c) == \E i \in 1..Len(Digits) : Digits[i] = c

\* char::is_ascii_alphanumeric
IsAlnum(c) == IsDigit(c) \/ c \in Lower \/ c \in Upper

\* char::is_ascii_whitespace: space, tab, line feed, form feed, carriage return
IsWhitespace(c) == c \in {" ", "\t", "\n", "\f", "\r"}

\* The value of a decimal digit.
DigitVal(c) == (CHOOSE i \in 1..Len(Digits) : Digits[i] = c) - 1

\* (value as char) for a u8: the character whose code is v.
Chr(v) ==
    IF v >= 32 /\ v <= 126 THEN Printable[v - 31]
    ELSE IF v = 9 THEN "\t"
    ELSE IF v = 10 THEN "\n"
    ELSE IF v = 12 THEN "\f"
    ELSE IF v = 13 THEN "\r"
    ELSE "<" \o ToString(v) \o ">"

(***************************************************************************)
(* Numbers: str::parse for u8, i64 and f64 on a run of digits              *)
(***************************************************************************)
RECURSIVE DecVal(_)
\* The number a run of decimal digits denotes.
DecVal(ds) ==
    IF ds = <<>> THEN 0
    ELSE DecVal(SubSeq(ds, 1, Len(ds) - 1)) * 10 + DigitVal(ds[Len(ds)])

RECURSIVE StripZeros(_)
\* The digits without their leading zeros.
StripZeros(ds) ==
    IF ds # <<>> /\ Head(ds) = "0" THEN StripZeros(Tail(ds)) ELSE ds

RECURSIVE DigitsLess(_, _)
\* Two digit runs of one length: the first denotes the smaller number.
DigitsLess(a, b) ==
    /\ a # <<>>
    /\ \/ DigitVal(Head(a)) < DigitVal(Head(b))
       \/ Head(a) = Head(b) /\ DigitsLess(Tail(a), Tail(b))

U8Max == <<"2", "5", "5">>
I64Max == <<"9", "2", "2", "3", "3", "7", "2", "0", "3", "6", "8", "5", "4", "7", "7", "5", "8", "0", "7">>

\* The digits denote a number greater than the one max denotes.
Overflows(ds, max) ==
    LET s == StripZeros(ds) IN
    \/ Len(s) > Len(max)
    \/ Len(s) = Len(max) /\ DigitsLess(max, s)

\* number.parse::<u8>() and number.parse::<i64>() on a non-empty run of digits
ParseInt(ds, max) ==
    IF Overflows(ds, max) THEN [ok |-> FALSE] ELSE [ok |-> TRUE, value |-> DecVal(ds)]

RECURSIVE StripTrailingZeros(_)
StripTrailingZeros(ds) ==
    IF ds # <<>> /\ ds[Len(ds)] = "0" THEN StripTrailingZeros(SubSeq(ds, 1, Len(ds) - 1))
    ELSE ds

\* number.parse::<f64>() on digits, a dot, digits: the integral part and the
\* significant fraction digits.  It never fails on this shape.
ParseFloat(ip, fp) == [int |-> DecVal(ip), frac |-> StripTrailingZeros(fp)]

(***************************************************************************)
(* Positions (position.rs)                                                 *)
(***************************************************************************)
\* Position::new(ln, col) with ln = ls..le and col = cs..ce
Position(ls, le, cs, ce) == [ls |-> ls, le |-> le, cs |-> cs, ce |-> ce]

\* Position::default()
DefaultPos == Position(0, 0, 0, 0)

\* Position::extend: only the end of the line range is taken from other.
Extend(pos, other) == [pos EXCEPT !.le = other.le]

\* Located::new
Located(value, pos) == [value |-> value, pos |-> pos]

(***************************************************************************)
(* Lexer (lexer.rs).  A lexer state is [text, ln, col].                    *)
(***************************************************************************)
Lexer(t, l, c) == [text |-> t, ln |-> l, col |-> c]

\* Lexer::new
NewLexer(t) == Lexer(t, 0, 0)

\* Lexer::pos
Pos(lx) == Position(lx.ln, lx.ln, lx.col, lx.col + 1)

None == "None"

\* self.text.peek()
Peek(lx) == IF lx.text = <<>> THEN None ELSE Head(lx.text)

\* Lexer::advance: the character taken (or None) and the lexer after it.
\* The column grows also when the text is exhausted.
Advance(lx) ==
    IF lx.text = <<>> THEN [c |-> None, lx |-> Lexer(<<>>, lx.ln, lx.col + 1)]
    ELSE IF Head(lx.text) = "\n"
         THEN [c |-> "\n", lx |-> Lexer(Tail(lx.text), lx.ln + 1, 0)]
         ELSE [c |-> Head(lx.text), lx |-> Lexer(Tail(lx.text), lx.ln, lx.col + 1)]

RECURSIVE SkipWhitespace(_)
\* Lexer::skip_whitespace
SkipWhitespace(lx) ==
    IF lx.text # <<>> /\ IsWhitespace(Head(lx.text))
    THEN SkipWhitespace(Advance(lx).lx)
    ELSE lx

RECURSIVE SkipLine(_)
\* The inner loop of the comment skipping: up to, not including, the line feed.
SkipLine(lx) ==
    IF lx.text # <<>> /\ Head(lx.text) # "\n" THEN SkipLine(Advance(lx).lx) ELSE lx

RECURSIVE SkipComments(_)
\* AfterLine with an if in place of the while: one comment is skipped
AfterLine_Once(a) ==
    IF a.c = None THEN [eof |-> TRUE, lx |-> a.lx]
    ELSE [eof |-> FALSE, lx |-> SkipWhitespace(a.lx)]

\* The end of a turn of the comment loop of Lexer::next, a being the result of
\* self.advance() at the end of the comment: self.advance()? ends next() with
\* None at the end of the text (eof); else skip_whitespace and the loop again.
AfterLine(a) ==
    IF a.c = None THEN [eof |-> TRUE, lx |-> a.lx]
    ELSE SkipComments(SkipWhitespace(a.lx))

\* The comment loop of Lexer::next
SkipComments(lx) ==
    IF Peek(lx) = "#" THEN AfterLine(Advance(SkipLine(lx)))
    ELSE [eof |-> FALSE, lx |-> lx]

RECURSIVE DigitRun(_, _, _)
\* while let Some(c) = peek { if !c.is_ascii_digit() break; number.push(c);
\*                            pos.extend(&self.pos()); self.advance(); }
DigitRun(lx, number, pos) ==
    IF lx.text # <<>> /\ IsDigit(Head(lx.text))
    THEN DigitRun(Advance(lx).lx, Append(number, Head(lx.text)), Extend(pos, Pos(lx)))
    ELSE [lx |-> lx, number |-> number, pos |-> pos]

RECURSIVE AlnumRun(_, _, _)
\* The same loop of the identifier branch, on is_ascii_alphanumeric.
AlnumRun(lx, ident, pos) ==
    IF lx.text # <<>> /\ IsAlnum(Head(lx.text))
    THEN AlnumRun(Advance(lx).lx, Append(ident, Head(lx.text)), Extend(pos, Pos(lx)))
    ELSE [lx |-> lx, ident |-> ident, pos |-> pos]

\* Results of one Lexer::next call.
LexTok(tok, pos, lx) == [kind |-> "tok", tok |-> Located(tok, pos), lx |-> lx]
LexErr(err, pos, lx) == [kind |-> "err", err |-> Located(err, pos), lx |-> lx]
LexEnd(lx) == [kind |-> "none", lx |-> lx]

\* Tokens
Tok(type) == [type |-> type]
TokV(type, val) == [type |-> type, val |-> val]

\* LexError
Err(type) == [type |-> type]

\* The character of a \<digits> escape, value being number.parse::<u8>() of
\* the digit run, or ParseIntError at the run's position
ByteChar(value, run) ==
    IF value.ok THEN [ok |-> TRUE, c |-> Chr(value.value), lx |-> run.lx]
    ELSE [ok |-> FALSE, err |-> Err("ParseIntError"), pos |-> run.pos, lx |-> run.lx]

\* The digit branch of the escape match, run being its digit loop
ByteEscape(run) == ByteChar(ParseInt(run.number, U8Max), run)

\* The escape match of the string branch, a being the result of the
\* self.advance() after the backslash: the decoded character and the lexer
\* after it, or the error.
EscapeMatch(a) ==
    IF a.c = None
    THEN [ok |-> FALSE, err |-> Err("ExpectedEscapeCharacter"), pos |-> Pos(a.lx), lx |-> a.lx]
    ELSE IF a.c = "n" THEN [ok |-> TRUE, c |-> "\n", lx |-> a.lx]
    ELSE IF a.c = "t" THEN [ok |-> TRUE, c |-> "\t", lx |-> a.lx]
    ELSE IF a.c = "r" THEN [ok |-> TRUE, c |-> "\r", lx |-> a.lx]
    ELSE IF IsDigit(a.c) THEN ByteEscape(DigitRun(a.lx, <<a.c>>, Pos(a.lx)))
    ELSE [ok |-> TRUE, c |-> a.c, lx |-> a.lx]

RECURSIVE StringLoop(_, _, _)
\* string.push(<the escape e>); self.advance(); and the loop again
PushEscape(e, string, end_c) ==
    IF e.ok THEN StringLoop(Advance(e.lx).lx, Append(string, e.c), end_c) ELSE e

\* The loop of the string branch.  After the character (or the escape) is
\* pushed, self.advance() runs once more, whatever was pushed.
StringLoop(lx, string, end_c) ==
    IF lx.text = <<>> \/ Head(lx.text) = end_c THEN [ok |-> TRUE, lx |-> lx, string |-> string]
    ELSE IF Head(lx.text) = "\\"
         THEN PushEscape(EscapeMatch(Advance(Advance(lx).lx)), string, end_c)
         ELSE StringLoop(Advance(lx).lx, Append(string, Head(lx.text)), end_c)

\* The end of the string branch, r being the result of its loop.  The closing
\* quote is taken with self.text.next(), which leaves ln and col.
StringEnd(r, pos) ==
    IF ~r.ok THEN LexErr(r.err, r.pos, r.lx)
    ELSE IF r.lx.text = <<>> THEN LexErr(Err("UnclosedString"), Extend(pos, Pos(r.lx)), r.lx)
    ELSE LexTok(TokV("String", r.string), Extend(pos, Pos(r.lx)),
                Lexer(Tail(r.lx.text), r.lx.ln, r.lx.col))

\* The string branch of Lexer::next; lx is the lexer after the opening quote.
LexString(lx, pos, end_c) == StringEnd(StringLoop(lx, <<>>, end_c), pos)

\* Token::Integer of number.parse::<i64>(), or ParseIntError
IntegerTok(value, ip) ==
    IF value.ok THEN LexTok(TokV("Integer", value.value), ip.pos, ip.lx)
    ELSE LexErr(Err("ParseIntError"), ip.pos, ip.lx)

\* Token::Decimal of number.parse::<f64>(), fp being the digit loop after the dot
DecimalTok(number, fp) == LexTok(TokV("Decimal", ParseFloat(number, fp.number)), fp.pos, fp.lx)

\* The number branch after its first digit loop ip
NumberEnd(ip) ==
    IF Peek(ip.lx) = "."
    THEN DecimalTok(ip.number, DigitRun(Advance(ip.lx).lx, <<>>, Extend(ip.pos, Pos(ip.lx))))
    ELSE IntegerTok(ParseInt(ip.number, I64Max), ip)

\* The number branch of Lexer::next; lx is the lexer after the first digit c.
LexNumber(lx, pos, c) == NumberEnd(DigitRun(lx, <<c>>, pos))

\* Token::Ident of the identifier loop
IdentTok(run) == LexTok(TokV("Ident", run.ident), run.pos, run.lx)

\* The identifier branch of Lexer::next; lx is the lexer after the first character c.
LexIdent(lx, pos, c) == IdentTok(AlnumRun(lx, <<c>>, pos))

\* The single-character tokens of the match in Lexer::next.
Punct(c) ==
    CASE c = "(" -> "ParanLeft"
      [] c = ")" -> "ParanRight"
      [] c = "[" -> "BracketLeft"
      [] c = "]" -> "BracketRight"
      [] c = "{" -> "BraceLeft"
      [] c = "}" -> "BraceRight"
      [] c = "=" -> "Equal"
      [] c = ";" -> "Semicolon"
      [] c = "." -> "Dot"
      [] OTHER -> None

\* LexMatch with the identifier arm before the number arm
LexMatch_IdentFirst(lx, pos, c) ==
    IF Punct(c) # None THEN LexTok(Tok(Punct(c)), pos, lx)
    ELSE IF c = "\"" \/ c = "'" THEN LexString(lx, pos, c)
    ELSE IF IsAlnum(c) THEN LexIdent(lx, pos, c)
    ELSE IF IsDigit(c) THEN LexNumber(lx, pos, c)
    ELSE LexErr([type |-> "BadCharacter", c |-> c], pos, lx)

\* The match on the first character of a token; lx is the lexer after it.
LexMatch(lx, pos, c) ==
    IF Punct(c) # None THEN LexTok(Tok(Punct(c)), pos, lx)
    ELSE IF c = "\"" \/ c = "'" THEN LexString(lx, pos, c)
    ELSE IF IsDigit(c) THEN LexNumber(lx, pos, c)
    ELSE IF IsAlnum(c) THEN LexIdent(lx, pos, c)
    ELSE LexErr([type |-> "BadCharacter", c |-> c], pos, lx)

\* let c = self.advance()?; match c, a being the result of the advance
NextToken(pos, a) == IF a.c = None THEN LexEnd(a.lx) ELSE LexMatch(a.lx, pos, a.c)

\* Lexer::next after the white space and the comments are skipped
NextAfterSkip(s) == IF s.eof THEN LexEnd(s.lx) ELSE NextToken(Pos(s.lx), Advance(s.lx))

\* Iterator::next for Lexer
LexerNext(lx) == NextAfterSkip(SkipComments(SkipWhitespace(lx)))

RECURSIVE LexFrom(_, _)
\* One turn of the loop of Lexer::lex, r being the result of next()
LexPush(r, acc) ==
    IF r.kind = "tok" THEN LexFrom(r.lx, Append(acc, r.tok))
    ELSE IF r.kind = "err" THEN [ok |-> FALSE, err |-> r.err, tokens |-> acc]
    ELSE [ok |-> TRUE, tokens |-> acc]

\* Lexer::lex, from lexer state lx with the tokens acc so far.
LexFrom(lx, acc) == LexPush(LexerNext(lx), acc)

\* Lexer::new(t).lex()
Lex(t) == LexFrom(NewLexer(t), <<>>)

(***************************************************************************)
(* Syntax trees (parser.rs): the variants of Path, Atom, Expression,       *)
(* Statement and Program, and of ParseError                                *)
(***************************************************************************)
PathIdent(name) == [kind |-> "Ident", name |-> name]
PathField(head, field) == [kind |-> "Field", head |-> head, field |-> field]

AtomPath(path) == [kind |-> "Path", path |-> path]
AtomInteger(v) == [kind |-> "Integer", val |-> v]
AtomDecimal(v) == [kind |-> "Decimal", val |-> v]
AtomString(v) == [kind |-> "String", val |-> v]
AtomExpression(expr) == [kind |-> "Expression", expr |-> expr]
AtomList(exprs) == [kind |-> "List", exprs |-> exprs]

ExprAtom(atom) == [kind |-> "Atom", atom |-> atom]
ExprCall(head, args) == [kind |-> "Call", head |-> head, args |-> args]

StatAssign(path, expr) == [kind |-> "Assign", path |-> path, expr |-> expr]
StatCall(head, args) == [kind |-> "Call", head |-> head, args |-> args]

Program(stats) == [stats |-> stats]

UnexpectedEOF == [type |-> "UnexpectedEOF"]
UnexpectedToken(tok) == [type |-> "UnexpectedToken", got |-> tok]
ExpectedToken(expected, got) == [type |-> "ExpectedToken", expected |-> expected, got |-> got]
ExpectedTokens(expected, got) == [type |-> "ExpectedTokens", expected |-> expected, got |-> got]

(***************************************************************************)
(* Parser (parser.rs).  The parser is the sequence of tokens not yet       *)
(* consumed.  A parse returns Ok(node, rest) or Fail(err, pos).            *)
(***************************************************************************)
Ok(node, rest) == [ok |-> TRUE, node |-> node, rest |-> rest]
Fail(err, pos) == [ok |-> FALSE, err |-> err, pos |-> pos]

\* matches!(parser.peek(), Some(Located { value: <type>, .. }))
PeekIs(ts, type) == ts # <<>> /\ Head(ts).value.type = type

\* Located::map, value being f(loc.value)
MapTo(loc, value) == Located(value, loc.pos)

\* Expect with the closing token looked at and left in the parser
Expect_NoConsume(ts, expected) ==
    IF ts = <<>> THEN [ok |-> FALSE, err |-> UnexpectedEOF, pos |-> DefaultPos]
    ELSE IF Head(ts).value # Tok(expected)
         THEN [ok |-> FALSE, err |-> ExpectedToken(Tok(expected), Head(ts).value), pos |-> Head(ts).pos]
         ELSE [ok |-> TRUE, node |-> Head(ts), rest |-> ts]

\* Expect with the end of the tokens reported as a mismatch
Expect_EofAsMismatch(ts, expected) ==
    IF ts = <<>>
    THEN [ok |-> FALSE, err |-> ExpectedToken(Tok(expected), Tok(expected)), pos |-> DefaultPos]
    ELSE IF Head(ts).value # Tok(expected)
         THEN [ok |-> FALSE, err |-> ExpectedToken(Tok(expected), Head(ts).value), pos |-> Head(ts).pos]
         ELSE [ok |-> TRUE, node |-> Head(ts), rest |-> Tail(ts)]

\* let Some(..) = parser.next() else { UnexpectedEOF }; if c_token != expected
\* { ExpectedToken }: the node is the consumed token, as located.
Expect(ts, expected) ==
    IF ts = <<>> THEN Fail(UnexpectedEOF, DefaultPos)
    ELSE IF Head(ts).value # Tok(expected)
         THEN Fail(ExpectedToken(Tok(expected), Head(ts).value), Head(ts).pos)
         ELSE Ok(Head(ts), Tail(ts))

\* The closing token c expected after the parsed node: the node, the closing
\* token and the tokens left, or the error of c.
Closing(node, c) ==
    IF c.ok THEN [ok |-> TRUE, node |-> node, close |-> c.node, rest |-> c.rest] ELSE c

\* inner?, then the closing token expected
Closed(inner, close) ==
    IF inner.ok THEN Closing(inner.node, Expect(inner.rest, close)) ELSE inner

\* Path::ident
PathIdentParse(ts) ==
    IF ts = <<>> THEN Fail(UnexpectedEOF, DefaultPos)
    ELSE IF Head(ts).value.type = "Ident"
         THEN Ok(Located(PathIdent(Head(ts).value.val), Head(ts).pos), Tail(ts))
         ELSE Fail(ExpectedToken(Tok("BracketRight"), Head(ts).value), Head(ts).pos)

RECURSIVE AtomParse(_), ExpressionParse(_), PathParse(_), PathLoop(_, _), ExprLoop(_, _),
          ExprsUntil(_, _, _)

\* path?.map(Atom::Path)
AsAtomPath(path) ==
    IF path.ok THEN Ok(MapTo(path.node, AtomPath(path.node.value)), path.rest) ELSE path

\* The end of a turn of the loop of Path::parse: field?, pos.extend(&field.pos),
\* head = Path::Field { head, field }
PathPush(head, field) ==
    IF field.ok
    THEN PathLoop(Located(PathField(head, field.node), Extend(head.pos, field.node.pos)),
                  field.rest)
    ELSE field

\* PathLoop with the field after a dot parsed by Path::parse, not Path::ident
PathLoop_RightNest(head, ts) ==
    IF PeekIs(ts, "Dot")
    THEN PathPush(head, IF PeekIs(Tail(ts), "Ident") THEN AsAtomPath(PathParse(Tail(ts)))
                        ELSE AtomParse(Tail(ts)))
    ELSE [ok |-> TRUE, node |-> head, rest |-> ts]

\* The loop of Path::parse: head is the path so far.
PathLoop(head, ts) ==
    IF PeekIs(ts, "Dot")
    THEN PathPush(head, IF PeekIs(Tail(ts), "Ident") THEN AsAtomPath(PathIdentParse(Tail(ts)))
                        ELSE AtomParse(Tail(ts)))
    ELSE Ok(head, ts)

\* let mut head = Self::ident(parser)?; then the loop
PathStart(head) == IF head.ok THEN PathLoop(head.node, head.rest) ELSE head

\* <Path as Parsable>::parse
PathParse(ts) == PathStart(PathIdentParse(ts))

\* exprs.push(Expression::parse(parser)?), then the loop again
ExprsPush(exprs, e, close) ==
    IF e.ok THEN ExprsUntil(e.rest, Append(exprs, e.node), close) ELSE e

\* ExprsUntil with the end of the tokens reported by the loop itself
ExprsUntil_EofFails(ts, exprs, close) ==
    IF ts = <<>> THEN [ok |-> FALSE, err |-> UnexpectedToken(Tok(close)), pos |-> DefaultPos]
    ELSE IF Head(ts).value # Tok(close) THEN ExprsPush(exprs, ExpressionParse(ts), close)
    ELSE [ok |-> TRUE, node |-> exprs, rest |-> ts]

\* while let Some(c_token) = parser.peek() { if c_token == close { break; }
\*                                           exprs.push(Expression::parse(parser)?); }
ExprsUntil(ts, exprs, close) ==
    IF ts # <<>> /\ Head(ts).value # Tok(close)
    THEN ExprsPush(exprs, ExpressionParse(ts), close)
    ELSE Ok(exprs, ts)

\* Atom::Expression of the closed expression r, pos extended by the ')'
ParenAtom(pos, r) ==
    IF r.ok THEN Ok(Located(AtomExpression(r.node), Extend(pos, r.close.pos)), r.rest) ELSE r

\* Atom::List of the closed expressions r, pos extended by the ']'
ListAtom(pos, r) ==
    IF r.ok THEN Ok(Located(AtomList(r.node), Extend(pos, r.close.pos)), r.rest) ELSE r

\* The match on the token taken by Atom::parse, located at pos, rest following it
AtomMatch(token, pos, rest) ==
    CASE token.type = "Integer" -> Ok(Located(AtomInteger(token.val), pos), rest)
      [] token.type = "Decimal" -> Ok(Located(AtomDecimal(token.val), pos), rest)
      [] token.type = "String" -> Ok(Located(AtomString(token.val), pos), rest)
      [] token.type = "ParanLeft" ->
            ParenAtom(pos, Closed(ExpressionParse(rest), "ParanRight"))
      [] token.type = "BracketLeft" ->
            ListAtom(pos, Closed(ExprsUntil(rest, <<>>, "BracketRight"), "BracketRight"))
      [] OTHER -> Fail(UnexpectedToken(token), pos)

\* <Atom as Parsable>::parse
AtomParse(ts) ==
    IF PeekIs(ts, "Ident") THEN AsAtomPath(PathParse(ts))
    ELSE IF ts = <<>> THEN Fail(UnexpectedEOF, DefaultPos)
    ELSE AtomMatch(Head(ts).value, Head(ts).pos, Tail(ts))

\* CallExpr with a further argument list added to the call already built
CallExpr_Flat(head, r) ==
    IF r.ok
    THEN ExprLoop(Located(IF head.value.kind = "Call"
                          THEN ExprCall(head.value.head, head.value.args \o r.node)
                          ELSE ExprCall(head, r.node),
                          Extend(head.pos, r.close.pos)), r.rest)
    ELSE r

\* The end of a turn of the loop of Expression::parse: the closed arguments r,
\* pos.extend(&c_pos), head = Expression::Call { head, args }
CallExpr(head, r) ==
    IF r.ok
    THEN ExprLoop(Located(ExprCall(head, r.node), Extend(head.pos, r.close.pos)), r.rest)
    ELSE r

\* The loop of Expression::parse: head is the expression so far.
ExprLoop(head, ts) ==
    IF PeekIs(ts, "ParanLeft")
    THEN CallExpr(head, Closed(ExprsUntil(Tail(ts), <<>>, "ParanRight"), "ParanRight"))
    ELSE Ok(head, ts)

\* let mut head = Atom::parse(parser)?.map(Self::Atom); then the loop
ExprStart(atom) ==
    IF atom.ok THEN ExprLoop(MapTo(atom.node, ExprAtom(atom.node.value)), atom.rest) ELSE atom

\* <Expression as Parsable>::parse
ExpressionParse(ts) == ExprStart(AtomParse(ts))

\* Statement::Assign of expr?, pos extended by the expression
AssignStat(path, expr) ==
    IF expr.ok
    THEN Ok(Located(StatAssign(path, expr.node), Extend(path.pos, expr.node.pos)), expr.rest)
    ELSE expr

\* Statement::Call of the closed arguments r, pos extended by the ')'
CallStat(path, r) ==
    IF r.ok THEN Ok(Located(StatCall(path, r.node), Extend(path.pos, r.close.pos)), r.rest)
    ELSE r

\* The match on the token after the path in Statement::parse: the statement,
\* before its semicolon.
StatementBody(path, ts) ==
    IF ts = <<>> THEN Fail(UnexpectedEOF, DefaultPos)
    ELSE CASE Head(ts).value.type = "Equal" -> AssignStat(path, ExpressionParse(Tail(ts)))
           [] Head(ts).value.type = "ParanLeft" ->
                 CallStat(path, Closed(ExprsUntil(Tail(ts), <<>>, "ParanRight"), "ParanRight"))
           [] OTHER ->
                 Fail(ExpectedTokens(<<Tok("Equal"), Tok("ParanLeft")>>, Head(ts).value),
                      Head(ts).pos)

\* The semicolon semi expected after the statement: Ok(stat), or the error
Ended(stat, semi) == IF semi.ok THEN Ok(stat, semi.rest) ELSE semi

\* The end of Statement::parse, after the match
Semicolon(stat) ==
    IF stat.ok THEN Ended(stat.node, Expect(stat.rest, "Semicolon")) ELSE stat

\* Statement::parse after let path = Path::parse(parser)?
StatementAfter(path) ==
    IF path.ok THEN Semicolon(StatementBody(path.node, path.rest)) ELSE path

\* <Statement as Parsable>::parse
StatementParse(ts) == StatementAfter(PathParse(ts))

RECURSIVE ProgramLoop(_, _, _)
\* let stat = Statement::parse(parser)?; pos.extend(&stat.pos); stats.push(stat);
ProgramPush(stats, pos, stat) ==
    IF stat.ok
    THEN ProgramLoop(stat.rest, Append(stats, stat.node), Extend(pos, stat.node.pos))
    ELSE stat

\* The loop of Program::parse
ProgramLoop(ts, stats, pos) ==
    IF ts # <<>> THEN ProgramPush(stats, pos, StatementParse(ts))
    ELSE Ok(Located(Program(stats), pos), ts)

\* <Program as Parsable>::parse
ProgramParse(ts) == ProgramLoop(ts, <<>>, DefaultPos)

(***************************************************************************)
(* IR compiler state (ir.rs)                                               *)
(***************************************************************************)
\* Closure::default()
DefaultClosure == [code |-> <<>>, string |-> <<>>, int |-> <<>>, float |-> <<>>]

\* Option::Some and Option::None
Some(x) == [some |-> TRUE, val |-> x]
NoneOf == [some |-> FALSE]

\* Vec::last, and the value of Vec::pop
Last(v) == IF v = <<>> THEN NoneOf ELSE Some(v[Len(v)])

\* Vec::pop's effect: an empty vector stays empty
Pop(v) == IF v = <<>> THEN <<>> ELSE SubSeq(v, 1, Len(v) - 1)

\* Vec::last_mut followed by a write through it: the last element replaced
SetLast(v, x) == [v EXCEPT ![Len(v)] = x]

\* IRCompiler::closure, IRCompiler::registers, IRCompiler::labels
ActiveClosure == Last(closure_stack)
ActiveRegisters == Last(registers)
ActiveLabels == Last(labels)

\* The active frame, as the three accessors give it
ActiveFrame == <<ActiveClosure, ActiveRegisters, ActiveLabels>>

(***************************************************************************)
(* Inputs                                                                  *)
(***************************************************************************)
\* The longest text drawn over the parser's alphabet, over the string
\* alphabet and over the layout alphabet
MaxParseLen == 5
MaxStringLen == 5
MaxLayoutLen == 3
\* The most argument lists of a call chain, and fields of a path
MaxCalls == 3
MaxFields == 2
\* The deepest closure stack, and the most entries all its frames hold
MaxDepth == 3
MaxItems == 2

RECURSIVE Sum(_)
\* The sum of a sequence of numbers
Sum(ns) == IF ns = <<>> THEN 0 ELSE Head(ns) + Sum(Tail(ns))

\* All texts over the characters S of length at most n
Texts(S, n) == UNION {[1..k -> S] : k \in 0..n}

SigmaParse == {"a", "1", "(", ")", "=", ";", "."}
SigmaString == {"\"", "\\", "1", "0", "n"}
SigmaLayout == {"a", "1", ";", " ", "#", "\n", "\"", "."}

\* print("hello");
Hello == <<"p", "r", "i", "n", "t", "(", "\"", "h", "e", "l", "l", "o", "\"", ")", ";">>
\* print("hello"
HelloOpen == SubSeq(Hello, 1, 13)
\* "\110\105"
EscapeHI == <<"\"", "\\", "1", "1", "0", "\\", "1", "0", "5", "\"">>
\* a.1 = 2;
FieldAssign == <<"a", ".", "1", " ", "=", " ", "2", ";">>
\* x = [f(a)(b) 1.5];  on two lines
ListCall == <<"x", " ", "=", " ", "[", "f", "(", "a", ")", "(", "b", ")", "\n", "1", ".", "5", "]", ";">>

\* a=1;f(a);
TwoStats == <<"a", "=", "1", ";", "f", "(", "a", ")", ";">>

\* "a\nb"  and  "a\n";  (backslash, n)
EscapeMid == <<"\"", "a", "\\", "n", "b", "\"">>
EscapeLast == <<"\"", "a", "\\", "n", "\"", ";">>
\* 1abc
DigitFirst == <<"1", "a", "b", "c">>

Examples ==
    {Hello, HelloOpen, EscapeHI, FieldAssign, ListCall, TwoStats, EscapeMid, EscapeLast, DigitFirst}

RECURSIVE Concat(_)
\* The texts of a sequence, one after the other
Concat(parts) == IF parts = <<>> THEN <<>> ELSE Head(parts) \o Concat(Tail(parts))

\* Call chains: x = HEAD ARGS ... ARGS ;  with one to MaxCalls argument lists
ArgLists ==
    << <<"(", ")">>, <<"(", "a", ")">>, <<"(", "b", ")">>, <<"(", "a", " ", "1", ")">>,
       <<"(", "g", "(", "b", ")", ")">> >>
ChainHeads == << <<"f">>, <<"7">>, <<"(", "f", ")">> >>
ChainChoices == UNION {[1..n -> 1..Len(ArgLists)] : n \in 1..MaxCalls}
ChainText(h, choice) ==
    <<"x", "=">> \o ChainHeads[h] \o Concat([i \in 1..Len(choice) |-> ArgLists[choice[i]]]) \o <<";">>
CallChains == {ChainText(h, choice) : h \in 1..Len(ChainHeads), choice \in ChainChoices}

\* Field chains: a . FIELD ... . FIELD = 2;  with one to MaxFields fields
Fields == << <<"b">>, <<"1", " ">>, <<"(", "c", ")">>, <<"'", "s", "'">>, <<"[", "1", "]">> >>
FieldChoices == UNION {[1..n -> 1..Len(Fields)] : n \in 1..MaxFields}
FieldText(choice) ==
    <<"a">> \o Concat([i \in 1..Len(choice) |-> <<".">> \o Fields[choice[i]]]) \o <<"=", "2", ";">>
FieldChains == {FieldText(choice) : choice \in FieldChoices}

Inputs ==
    Examples \cup CallChains \cup FieldChains
    \cup Texts(SigmaParse, MaxParseLen) \cup Texts(SigmaString, MaxStringLen)
    \cup Texts(SigmaLayout, MaxLayoutLen)

(***************************************************************************)
(* The pipeline of tests.rs: Lexer::new(text).lex(), then Program::parse   *)
(***************************************************************************)
NoError == [type |-> "NoError"]
NoResult == [ok |-> FALSE, err |-> [type |-> "NoResult"], pos |-> DefaultPos]
NoReturn == [some |-> FALSE, never |-> TRUE]

IRIdle ==
    /\ closure_stack = <<>>
    /\ registers = <<>>
    /\ labels = <<>>
    /\ returned = NoReturn
    /\ saved = <<>>

\* Lexer::new(input)
Start(t, b) ==
    /\ input = t
    /\ base = b
    /\ text = t
    /\ ln = 0
    /\ col = 0
    /\ tokens = <<>>
    /\ lexerr = NoError
    /\ ast = NoResult
    /\ phase = "lex"
    /\ IRIdle

Init == \E t \in Inputs : Start(t, t)

\* The lexer and the result of Lexer::lex after next() returned r
LexStep(r) ==
    /\ text' = r.lx.text
    /\ ln' = r.lx.ln
    /\ col' = r.lx.col
    /\ tokens' = IF r.kind = "tok" THEN Append(tokens, r.tok) ELSE tokens
    /\ lexerr' = IF r.kind = "err" THEN r.err ELSE lexerr
    /\ phase' = IF r.kind = "tok" THEN "lex" ELSE IF r.kind = "err" THEN "lexerr" ELSE "lexed"

\* One turn of the loop of Lexer::lex: a call of next()
LexNext ==
    /\ phase = "lex"
    /\ LexStep(LexerNext(Lexer(text, ln, col)))
    /\ UNCHANGED <<input, base, ast>>
    /\ UNCHANGED irvars

\* Program::parse(&mut tokens.into_iter().peekable())
Parse ==
    /\ phase = "lexed"
    /\ ast' = ProgramParse(tokens)
    /\ phase' = "done"
    /\ UNCHANGED <<input, base, text, ln, col, tokens, lexerr>>
    /\ UNCHANGED irvars

Next == LexNext \/ Parse

Spec == Init /\ [][Next]_vars

(***************************************************************************)
(* The same pipeline on a text with filler (white space, a comment)        *)
(* inserted at a token boundary of a text that lexes                       *)
(***************************************************************************)
RECURSIVE TokenExtents(_, _)
\* For each token lexed from lexer state lx of a text of n characters: the
\* offsets (from 0) of its first character and of the character after its last.
ExtentsPush(r, s, n) ==
    IF r.kind = "tok"
    THEN <<[from |-> n - Len(s.lx.text), to |-> n - Len(r.lx.text)]>> \o TokenExtents(r.lx, n)
    ELSE <<>>

TokenExtents(lx, n) == ExtentsPush(LexerNext(lx), SkipComments(SkipWhitespace(lx)), n)

Extents(t) == TokenExtents(NewLexer(t), Len(t))

\* The offsets at which a token starts or ends, and the start and the end, of
\* a text of n characters whose tokens have the extents ext
PointsOf(ext, n) ==
    {0, n} \cup {ext[i].from : i \in DOMAIN ext} \cup {ext[i].to : i \in DOMAIN ext}

BoundaryPoints(t) == PointsOf(Extents(t), Len(t))

\* The offsets after the last token
EndsOf(ext, n) == IF ext = <<>> THEN 0..n ELSE (ext[Len(ext)].to)..n

EndPoints(t) == EndsOf(Extents(t), Len(t))

\* Runs of ASCII white space, and comments running to the end of their line
Fillers ==
    { <<" ">>, <<"\t">>, <<"\n">>, <<"\r">>, <<"\f">>, <<" ", "\n", " ">>,
      <<"#", "\n">>, <<"#", "a", ";", "\n">>, <<"#", "#", "\"", "\n">>, <<" ", "#", " ", "\n", "\t">> }
\* Comments ended by the end of the text
EndFillers == { <<"#">>, <<"#", "a", "\"">> }

InsertAt(t, p, f) == SubSeq(t, 1, p) \o f \o SubSeq(t, p + 1, Len(t))

Bases == {t \in Examples \cup Texts(SigmaLayout, MaxLayoutLen) : Lex(t).ok}

InitWs ==
    \E b \in Bases :
        \/ \E p \in BoundaryPoints(b), f \in Fillers : Start(InsertAt(b, p, f), b)
        \/ \E p \in EndPoints(b), f \in EndFillers : Start(InsertAt(b, p, f), b)

SpecWs == InitWs /\ [][Next]_vars

(***************************************************************************)
(* The IR compiler: IRCompiler::new(), then push_closure, pop_closure and  *)
(* writes through closure_mut, cregisters_mut and labels_mut               *)
(***************************************************************************)
Addrs == {0, 1}
RegisterIds == {0, 1}
LabelIds == {0, 1}

\* Located<LabeledIR> of LabeledIR::new(IR::Jump { addr })
Jump(addr) == [ir |-> [op |-> "Jump", addr |-> addr], label |-> NoneOf]

\* The entries all frames hold
Items ==
    Sum([i \in DOMAIN closure_stack |-> Len(closure_stack[i].code)])
    + Sum([i \in DOMAIN registers |-> Cardinality(registers[i])])
    + Sum([i \in DOMAIN labels |-> Len(labels[i])])

LexIdle ==
    /\ input = <<>>
    /\ base = <<>>
    /\ text = <<>>
    /\ ln = 0
    /\ col = 0
    /\ tokens = <<>>
    /\ lexerr = NoError
    /\ ast = NoResult

\* IRCompiler::new
InitIR ==
    /\ LexIdle
    /\ phase = "ir"
    /\ closure_stack = <<DefaultClosure>>
    /\ registers = <<{}>>
    /\ labels = << <<>> >>
    /\ returned = NoReturn
    /\ saved = <<>>

\* IRCompiler::push_closure
PushClosure ==
    /\ phase = "ir"
    /\ Len(closure_stack) < MaxDepth
    /\ closure_stack' = Append(closure_stack, DefaultClosure)
    /\ registers' = Append(registers, {})
    /\ labels' = Append(labels, <<>>)
    /\ saved' = Append(saved, ActiveFrame)
    /\ UNCHANGED <<returned, phase>>
    /\ UNCHANGED lexvars

\* pop_closure without self.labels.pop()
PopClosure_KeepLabels ==
    /\ phase = "ir"
    /\ registers' = Pop(registers)
    /\ labels' = labels
    /\ returned' = Last(closure_stack)
    /\ closure_stack' = Pop(closure_stack)
    /\ saved' = Pop(saved)
    /\ UNCHANGED phase
    /\ UNCHANGED lexvars

\* pop_closure without self.registers.pop()
PopClosure_KeepRegisters ==
    /\ phase = "ir"
    /\ registers' = registers
    /\ labels' = Pop(labels)
    /\ returned' = Last(closure_stack)
    /\ closure_stack' = Pop(closure_stack)
    /\ saved' = Pop(saved)
    /\ UNCHANGED phase
    /\ UNCHANGED lexvars

\* IRCompiler::pop_closure
PopClosure ==
    /\ phase = "ir"
    /\ registers' = Pop(registers)
    /\ labels' = Pop(labels)
    /\ returned' = Last(closure_stack)
    /\ closure_stack' = Pop(closure_stack)
    /\ saved' = Pop(saved)
    /\ UNCHANGED phase
    /\ UNCHANGED lexvars

\* closure_mut().map(|c| c.code.push(..))
Emit ==
    /\ phase = "ir"
    /\ closure_stack # <<>>
    /\ Items < MaxItems
    /\ \E addr \in Addrs :
          closure_stack' = SetLast(closure_stack,
              [closure_stack[Len(closure_stack)] EXCEPT !.code = Append(@, Jump(addr))])
    /\ UNCHANGED <<registers, labels, returned, saved, phase>>
    /\ UNCHANGED lexvars

\* cregisters_mut().map(|r| r.insert(..))
UseRegister ==
    /\ phase = "ir"
    /\ registers # <<>>
    /\ Items < MaxItems
    /\ \E r \in RegisterIds :
          registers' = SetLast(registers, registers[Len(registers)] \cup {r})
    /\ UNCHANGED <<closure_stack, labels, returned, saved, phase>>
    /\ UNCHANGED lexvars

\* labels_mut().map(|l| l.push(..))
DeclareLabel ==
    /\ phase = "ir"
    /\ labels # <<>>
    /\ Items < MaxItems
    /\ \E l \in LabelIds :
          labels' = SetLast(labels, Append(labels[Len(labels)], l))
    /\ UNCHANGED <<closure_stack, registers, returned, saved, phase>>
    /\ UNCHANGED lexvars

NextIR == PushClosure \/ PopClosure \/ Emit \/ UseRegister \/ DeclareLabel

SpecIR == InitIR /\ [][NextIR]_vars

(***************************************************************************)
(* Comparing values as the code's PartialEq does: Located::eq compares the *)
(* values and leaves the positions out.                                    *)
(***************************************************************************)
\* The values of a vector of located tokens
Values(ts) == [i \in DOMAIN ts |-> ts[i].value]

RECURSIVE Unloc(_)
\* A tree value with the position of every located node in it dropped
Unloc(v) ==
    CASE v.kind = "Field" -> PathField(Unloc(v.head.value), Unloc(v.field.value))
      [] v.kind = "Path" -> AtomPath(Unloc(v.path))
      [] v.kind = "Expression" -> AtomExpression(Unloc(v.expr.value))
      [] v.kind = "List" -> AtomList([i \in DOMAIN v.exprs |-> Unloc(v.exprs[i].value)])
      [] v.kind = "Atom" -> ExprAtom(Unloc(v.atom))
      [] v.kind = "Call" -> ExprCall(Unloc(v.head.value), [i \in DOMAIN v.args |-> Unloc(v.args[i].value)])
      [] v.kind = "Assign" -> StatAssign(Unloc(v.path.value), Unloc(v.expr.value))
      [] OTHER -> v

\* The statements of a located program, positions dropped
Statements(prog) == [i \in DOMAIN prog.value.stats |-> Unloc(prog.value.stats[i].value)]

Lexed == phase \in {"lexed", "done"}
Parsed == phase = "done"

(***************************************************************************)
(* C1  End to end                                                          *)
(***************************************************************************)
HelloTokens ==
    << TokV("Ident", <<"p", "r", "i", "n", "t">>), Tok("ParanLeft"),
       TokV("String", <<"h", "e", "l", "l", "o">>), Tok("ParanRight"), Tok("Semicolon") >>

HelloStatement ==
    StatCall(PathIdent(<<"p", "r", "i", "n", "t">>),
             << ExprAtom(AtomString(<<"h", "e", "l", "l", "o">>)) >>)

\* C1: lexing print("hello"); succeeds with exactly the five tokens
\* Ident(print), ParanLeft, String(hello), ParanRight, Semicolon, and
\* Program::parse on them succeeds with the one statement
\* Call{head = Ident(print), args = [Atom(String(hello))]}.
C1_EndToEnd ==
    input = Hello =>
        /\ phase # "lexerr"
        /\ Lexed => Values(tokens) = HelloTokens
        /\ Parsed => ast.ok /\ Statements(ast.node) = <<HelloStatement>>

C1_Witness == input = Hello /\ Parsed /\ ast.ok

(***************************************************************************)
(* C2  Escape decoding                                                     *)
(***************************************************************************)
RECURSIVE Units(_)
\* The number of units of a string literal's body, a unit being a backslash
\* with the digits after it, a backslash with the one character after it, or
\* a character that is not a backslash; -1 when the body ends in a backslash.
Units(body) ==
    IF body = <<>> THEN 0
    ELSE IF Head(body) # "\\" THEN 1 + Units(Tail(body))
    ELSE IF Len(body) = 1 THEN -1
    ELSE LET rest == IF IsDigit(body[2])
                     THEN LET stop == CHOOSE k \in 2..Len(body) :
                                         /\ \A i \in 2..k : IsDigit(body[i])
                                         /\ k = Len(body) \/ ~IsDigit(body[k + 1])
                          IN  SubSeq(body, stop + 1, Len(body))
                     ELSE SubSeq(body, 3, Len(body))
             n == Units(rest)
         IN  IF n < 0 THEN -1 ELSE 1 + n

\* The input is one double-quoted literal whose escapes are all \<digits> of
\* at most 255 and whose body holds no quote.
DigitEscapeLiteral(t) ==
    /\ Len(t) >= 2
    /\ t[1] = "\"" /\ t[Len(t)] = "\""
    /\ \A i \in 2..(Len(t) - 1) :
          /\ t[i] # "\""
          /\ t[i] = "\\" => /\ i + 1 < Len(t) /\ IsDigit(t[i + 1])
                            /\ \A j \in (i + 1)..(Len(t) - 1) :
                                  (\A k \in (i + 1)..j : IsDigit(t[k]))
                                      => ~Overflows(SubSeq(t, i + 1, j), U8Max)

\* C2: lexing "\110\105" succeeds with the one token String(HI); and of any
\* literal each \<digits> escape gives one character of the value and no
\* other character of the literal is lost.
C2_EscapeDecoding ==
    /\ input = EscapeHI =>
          /\ phase # "lexerr"
          /\ Lexed => Values(tokens) = <<TokV("String", <<"H", "I">>)>>
    /\ DigitEscapeLiteral(input) =>
          /\ phase # "lexerr"
          /\ Lexed => /\ Len(tokens) = 1
                      /\ tokens[1].value.type = "String"
                      /\ Len(tokens[1].value.val) = Units(SubSeq(input, 2, Len(input) - 1))

(***************************************************************************)
(* C3  Error shape of a call left open                                     *)
(***************************************************************************)
\* The location right after a token: same line, from its end column on
After(pos) == Position(pos.le, pos.le, pos.ce, pos.ce + 1)

\* C3 as stated: parsing the tokens of print("hello" fails with
\* ExpectedToken{expected: ParanRight, ..} located right after String(hello).
C3_ErrorShape ==
    (input = HelloOpen /\ Parsed) =>
        /\ ~ast.ok
        /\ ast.err.type = "ExpectedToken"
        /\ ast.err.expected = Tok("ParanRight")
        /\ ast.pos = After(tokens[Len(tokens)].pos)

\* C3 amended: parsing the tokens of print("hello" fails with UnexpectedEOF
\* carrying the default (empty) position.
C3_ErrorShapeEOF ==
    (input = HelloOpen /\ Parsed) =>
        /\ ~ast.ok
        /\ ast.err = UnexpectedEOF
        /\ ast.pos = DefaultPos

C3_Witness ==
    input = HelloOpen /\ Parsed /\ Values(tokens) = SubSeq(HelloTokens, 1, 3)

(***************************************************************************)
(* C4  Spans of parsed nodes                                               *)
(***************************************************************************)
\* The span from the start of one token's span to the end of another's
Union(first, last) == Position(first.ls, last.le, first.cs, last.ce)

RECURSIVE TokCount(_)
\* The number of tokens consumed for an expression, atom or path
TokCount(v) ==
    CASE v.kind = "Ident" -> 1
      [] v.kind = "Field" -> TokCount(v.head.value) + 1 + TokCount(v.field.value)
      [] v.kind = "Path" -> TokCount(v.path)
      [] v.kind = "Expression" -> TokCount(v.expr.value) + 2
      [] v.kind = "List" -> Sum([i \in DOMAIN v.exprs |-> TokCount(v.exprs[i].value)]) + 2
      [] v.kind = "Atom" -> TokCount(v.atom)
      [] v.kind = "Call" ->
            TokCount(v.head.value) + Sum([i \in DOMAIN v.args |-> TokCount(v.args[i].value)]) + 2
      [] OTHER -> 1

\* The number of tokens consumed for a statement, its semicolon included
StatCount(v) ==
    IF v.kind = "Assign" THEN TokCount(v.path.value) + TokCount(v.expr.value) + 2
    ELSE TokCount(v) + 1

\* The token index at which the i-th of the nodes starts, the first starting at k
StartOf(nodes, i, k) == k + Sum([j \in 1..(i - 1) |-> TokCount(nodes[j].value)])

RECURSIVE SpanOK(_, _, _, _)
\* The node v, located at pos and consumed from token k of ts on, and every
\* node below it, spans its first to its last consumed token.
SpanOK(v, pos, ts, k) ==
    /\ pos = Union(ts[k].pos, ts[k + TokCount(v) - 1].pos)
    /\ CASE v.kind = "Field" ->
              /\ SpanOK(v.head.value, v.head.pos, ts, k)
              /\ SpanOK(v.field.value, v.field.pos, ts, k + TokCount(v.head.value) + 1)
         [] v.kind = "Path" -> SpanOK(v.path, pos, ts, k)
         [] v.kind = "Expression" -> SpanOK(v.expr.value, v.expr.pos, ts, k + 1)
         [] v.kind = "List" ->
              \A i \in DOMAIN v.exprs :
                 SpanOK(v.exprs[i].value, v.exprs[i].pos, ts, StartOf(v.exprs, i, k + 1))
         [] v.kind = "Atom" -> SpanOK(v.atom, pos, ts, k)
         [] v.kind = "Call" ->
              /\ SpanOK(v.head.value, v.head.pos, ts, k)
              /\ \A i \in DOMAIN v.args :
                    SpanOK(v.args[i].value, v.args[i].pos, ts,
                           StartOf(v.args, i, k + TokCount(v.head.value) + 1))
         [] OTHER -> TRUE

\* The statement located at stat, consumed from token k on
StatSpanOK(stat, ts, k) ==
    /\ stat.pos = Union(ts[k].pos, ts[k + StatCount(stat.value) - 1].pos)
    /\ IF stat.value.kind = "Assign"
       THEN /\ SpanOK(stat.value.path.value, stat.value.path.pos, ts, k)
            /\ SpanOK(stat.value.expr.value, stat.value.expr.pos, ts,
                      k + TokCount(stat.value.path.value) + 1)
       ELSE /\ SpanOK(stat.value.head.value, stat.value.head.pos, ts, k)
            /\ \A i \in DOMAIN stat.value.args :
                  SpanOK(stat.value.args[i].value, stat.value.args[i].pos, ts,
                         StartOf(stat.value.args, i, k + TokCount(stat.value.head.value) + 1))

\* C4: every node of a successful parse spans, in line and column, from the
\* start of the first token consumed for it to the end of the last one
\* (delimiters and the statement's semicolon included).
C4_RoundTripSpans ==
    (Parsed /\ ast.ok) =>
        LET stats == ast.node.value.stats IN
        /\ tokens # <<>> => ast.node.pos = Union(tokens[1].pos, tokens[Len(tokens)].pos)
        /\ \A i \in DOMAIN stats :
              StatSpanOK(stats[i], tokens, 1 + Sum([j \in 1..(i - 1) |-> StatCount(stats[j].value)]))

(***************************************************************************)
(* C5  Spans of tokens                                                     *)
(***************************************************************************)
\* The line and the column (both from 0) of the character at offset k of t
LineOf(t, k) == Cardinality({i \in 1..k : t[i] = "\n"})
ColOf(t, k) ==
    LET breaks == {i \in 1..k : t[i] = "\n"} IN
    IF breaks = {} THEN k ELSE k - (CHOOSE i \in breaks : \A j \in breaks : j <= i)

\* C5: the span of every token emitted starts at the line and column of its
\* first character and ends just past its last character.
C5_TokenSpans ==
    LET ext == Extents(input) IN
    \A i \in DOMAIN tokens :
        tokens[i].pos = Position(LineOf(input, ext[i].from), LineOf(input, ext[i].to - 1),
                                 ColOf(input, ext[i].from), ColOf(input, ext[i].to - 1) + 1)

(***************************************************************************)
(* C6  Call chains                                                         *)
(***************************************************************************)
\* The expression of an identifier
IdentExpr(name) == ExprAtom(AtomPath(PathIdent(<<name>>)))

\* The trees of ChainHeads and of ArgLists, in their order
HeadAsts == << IdentExpr("f"), ExprAtom(AtomInteger(7)), ExprAtom(AtomExpression(IdentExpr("f"))) >>
ArgAsts ==
    << <<>>, <<IdentExpr("a")>>, <<IdentExpr("b")>>, <<IdentExpr("a"), ExprAtom(AtomInteger(1))>>,
       <<ExprCall(IdentExpr("g"), <<IdentExpr("b")>>)>> >>

RECURSIVE ChainAst(_, _)
\* The left-nested calls of head h and the argument lists choice: the k-th
\* list is the args of the k-th call from the inside.
ChainAst(h, choice) ==
    IF choice = <<>> THEN HeadAsts[h]
    ELSE ExprCall(ChainAst(h, SubSeq(choice, 1, Len(choice) - 1)), ArgAsts[choice[Len(choice)]])

\* C6: an atom followed by n >= 1 parenthesized argument lists parses to n
\* left-nested Call nodes, the innermost head being the atom and the k-th
\* list being the args of the k-th call; f(a)(b) is
\* Call{head = Call{head = f, args = [a]}, args = [b]}.
C6_CallChains ==
    input \in CallChains =>
        \A h \in 1..Len(ChainHeads), choice \in ChainChoices :
            input = ChainText(h, choice) =>
                /\ phase # "lexerr"
                /\ Parsed =>
                      /\ ast.ok
                      /\ Statements(ast.node) = <<StatAssign(PathIdent(<<"x">>), ChainAst(h, choice))>>

\* x=f(a)(b); is parsed
C6_Witness ==
    /\ input = ChainText(1, <<2, 3>>)
    /\ Parsed /\ ast.ok
    /\ ast.node.value.stats[1].value.expr.value.head.value.kind = "Call"

(***************************************************************************)
(* C7  Fields of a path                                                    *)
(***************************************************************************)
\* The trees of Fields, in their order
FieldAsts ==
    << AtomPath(PathIdent(<<"b">>)), AtomInteger(1), AtomExpression(IdentExpr("c")),
       AtomString(<<"s">>), AtomList(<<ExprAtom(AtomInteger(1))>>) >>

RECURSIVE PathAst(_)
\* The left-nested fields choice of the identifier a
PathAst(choice) ==
    IF choice = <<>> THEN PathIdent(<<"a">>)
    ELSE PathField(PathAst(SubSeq(choice, 1, Len(choice) - 1)), FieldAsts[choice[Len(choice)]])

\* C7: after a dot Path::parse takes an identifier token as the field, else a
\* general atom, and chains of fields nest to the left: a.1 is
\* Field{head = Ident(a), field = Integer(1)}, a.b is
\* Field{head = Ident(a), field = Path(Ident(b))}; the text a.1 = 2; lexes and
\* parses without error.
C7_FieldParsing ==
    /\ input \in FieldChains =>
          \A choice \in FieldChoices :
              input = FieldText(choice) =>
                  /\ phase # "lexerr"
                  /\ Parsed =>
                        /\ ast.ok
                        /\ Statements(ast.node) = <<StatAssign(PathAst(choice), ExprAtom(AtomInteger(2)))>>
    /\ input = FieldAssign =>
          /\ phase # "lexerr"
          /\ Parsed =>
                /\ ast.ok
                /\ Statements(ast.node) = <<StatAssign(PathAst(<<2>>), ExprAtom(AtomInteger(2)))>>

\* a.b.b=2; is parsed
C7_Witness ==
    /\ input = FieldText(<<1, 1>>)
    /\ Parsed /\ ast.ok
    /\ ast.node.value.stats[1].value.path.value.head.value.kind = "Field"

(***************************************************************************)
(* C8  Truncated input                                                     *)
(***************************************************************************)
\* The numbers of tokens after which a statement of the program ends, 0 included
StatEnds(prog) ==
    LET stats == prog.value.stats IN
    {Sum([j \in 1..i |-> StatCount(stats[j].value)]) : i \in 0..Len(stats)}

\* The result r of parsing the first k tokens of a program that parses
PrefixOK(r, k, prog) ==
    /\ r.ok <=> k \in StatEnds(prog)
    /\ ~r.ok => r.err = UnexpectedEOF /\ r.pos = DefaultPos

\* C8: of tokens on which Program::parse succeeds, parsing a proper prefix
\* succeeds (the prefix ends on a statement boundary) or fails with
\* UnexpectedEOF carrying the default position, never with another error.
C8_TruncatedInput ==
    (Parsed /\ ast.ok) =>
        \A k \in 0..(Len(tokens) - 1) : PrefixOK(ProgramParse(SubSeq(tokens, 1, k)), k, ast.node)

\* a=1;f(a); is parsed: its prefix a=1; parses, its prefix a=1;f( does not
C8_Witness ==
    /\ input = TwoStats
    /\ Parsed /\ ast.ok
    /\ ProgramParse(SubSeq(tokens, 1, 4)).ok
    /\ ~ProgramParse(SubSeq(tokens, 1, 6)).ok

(***************************************************************************)
(* C9  White space and comments between tokens                             *)
(***************************************************************************)
\* C9: of a text that lexes, the text with a run of white space or a line
\* comment inserted at a token boundary lexes too, to the same token values.
C9_Transparency ==
    /\ phase # "lexerr"
    /\ Lexed => Values(tokens) = Values(Lex(base).tokens)

\* print #a;<line feed> ("hello"); is lexed
C9_Witness ==
    /\ base = Hello
    /\ input = InsertAt(Hello, 5, <<"#", "a", ";", "\n">>)
    /\ Lexed
    /\ Len(tokens) = 5

(***************************************************************************)
(* C10  Closure stack discipline                                           *)
(***************************************************************************)
\* A step is the pop_closure that matches a push_closure
MatchedPop == Len(saved') < Len(saved)

\* C10: a pop_closure that matches a push_closure returns the frame pushed
\* last and not yet popped, and leaves the active closure, registers and
\* labels as they were just before that push_closure.
C10_StackDiscipline ==
    [][MatchedPop => /\ returned' = ActiveClosure
                     /\ returned'.some
                     /\ ActiveFrame' = saved[Len(saved)]]_vars

\* A frame with Jump 1 was pushed on the frame with Jump 0, and popped
C10_Witness ==
    /\ Len(closure_stack) = 1
    /\ saved = <<>>
    /\ returned.some
    /\ returned.val.code = <<Jump(1)>>
    /\ closure_stack[1].code = <<Jump(0)>>

(***************************************************************************)
(* C11  Scanning of string literals                                        *)
(***************************************************************************)
\* The character an escape of one character stands for
RefEscape(c) ==
    IF c = "n" THEN "\n" ELSE IF c = "t" THEN "\t" ELSE IF c = "r" THEN "\r" ELSE c

\* The last index of the run of digits of t that starts at i
DigitsEnd(t, i) ==
    CHOOSE k \in i..Len(t) :
        /\ \A j \in i..k : IsDigit(t[j])
        /\ k = Len(t) \/ ~IsDigit(t[k + 1])

RECURSIVE RefScan(_, _, _, _)
\* The literal read as the sentence reads it, the escape \<digits> at i..k
RefDigits(t, i, k, q, acc) ==
    IF Overflows(SubSeq(t, i, k), U8Max) THEN [closed |-> FALSE]
    ELSE RefScan(t, k + 1, q, Append(acc, Chr(DecVal(SubSeq(t, i, k)))))

\* The literal of t opened by q, read from index i on with the value acc so
\* far: it ends at the first q outside an escape; an escape gives its one
\* character, any other character is kept.
RefScan(t, i, q, acc) ==
    IF i > Len(t) THEN [closed |-> FALSE]
    ELSE IF t[i] = q THEN [closed |-> TRUE, value |-> acc, next |-> i + 1]
    ELSE IF t[i] # "\\" THEN RefScan(t, i + 1, q, Append(acc, t[i]))
    ELSE IF i = Len(t) THEN [closed |-> FALSE]
    ELSE IF IsDigit(t[i + 1]) THEN RefDigits(t, i + 1, DigitsEnd(t, i + 1), q, acc)
    ELSE RefScan(t, i + 2, q, Append(acc, RefEscape(t[i + 1])))

\* The first token is the String of the literal r, once a call of next returned
FirstIsString(r) ==
    r.closed =>
        \/ phase = "lex" /\ tokens = <<>>
        \/ tokens # <<>> /\ tokens[1].value = TokV("String", r.value)

\* C11: a literal opened by a quote q ends at the first q that is not part of
\* an escape, and its value is the body with each escape replaced by its one
\* character and every other character kept: "a\nb" gives a, line feed, b;
\* "a\n" gives String(a, line feed) and the text after it is lexed on its own.
C11_StringScanning ==
    /\ (input # <<>> /\ input[1] \in {"\"", "'"}) =>
          FirstIsString(RefScan(input, 2, input[1], <<>>))
    /\ input = EscapeMid =>
          /\ phase # "lexerr"
          /\ Lexed => Values(tokens) = <<TokV("String", <<"a", "\n", "b">>)>>
    /\ input = EscapeLast =>
          /\ phase # "lexerr"
          /\ Lexed => Values(tokens) = <<TokV("String", <<"a", "\n">>), Tok("Semicolon")>>

(***************************************************************************)
(* C12  ExpectedToken errors                                               *)
(***************************************************************************)
\* The parser accepts the tokens as the start of a program: r, the result of
\* parsing them, is a program or stops for want of more tokens
AcceptedPrefix(r) == r.ok \/ r.err = UnexpectedEOF

\* The grammar accepts the token expected in the place of the k-th token
AcceptsAt(k, expected) ==
    AcceptedPrefix(ProgramParse(Append(SubSeq(tokens, 1, k - 1), Located(expected, tokens[k].pos))))

\* C12: an ExpectedToken{expected, got} error names as got the offending
\* token, is located at that token's span, and names as expected a token the
\* grammar accepts at that place; a statement that begins with a token that is
\* no identifier is not said to expect a token that is rejected there too.
C12_ExpectedTokenTruthful ==
    (Parsed /\ ~ast.ok /\ ast.err.type = "ExpectedToken") =>
        \E k \in DOMAIN tokens :
            /\ tokens[k].value = ast.err.got
            /\ tokens[k].pos = ast.pos
            /\ AcceptsAt(k, ast.err.expected)

(***************************************************************************)
(* C13  Identifiers do not start with a digit                              *)
(***************************************************************************)
\* Every token whose first character is a digit is a number, ext being the
\* extents of the tokens of the input (looked at once Lexer::lex has returned,
\* when tokens holds every token it produced)
DigitStartsNumber(ext) ==
    \A i \in DOMAIN tokens :
        IsDigit(input[ext[i].from + 1]) => tokens[i].value.type \in {"Integer", "Decimal"}

\* C13: no Ident token has a digit as its first character; a run that begins
\* with a digit is lexed as an Integer or a Decimal first: 1abc gives
\* Integer(1), Ident(abc).
C13_NoDigitIdent ==
    /\ \A i \in DOMAIN tokens :
          tokens[i].value.type = "Ident" => ~IsDigit(tokens[i].value.val[1])
    /\ phase # "lex" => DigitStartsNumber(Extents(input))
    /\ input = DigitFirst =>
          /\ phase # "lexerr"
          /\ Lexed => Values(tokens) = <<TokV("Integer", 1), TokV("Ident", <<"a", "b", "c">>)>>

\* 1abc is lexed
C13_Witness ==
    /\ input = DigitFirst
    /\ Lexed
    /\ Len(tokens) = 2
    /\ tokens[2].value.type = "Ident"

(***************************************************************************)
(* C14  The three stacks move in lock step                                 *)
(***************************************************************************)
\* closure_stack, registers and labels have one length, and the three
\* accessors are all Some or all None
LockStep ==
    /\ Len(closure_stack) = Len(registers)
    /\ Len(registers) = Len(labels)
    /\ ActiveClosure.some = ActiveRegisters.some
    /\ ActiveRegisters.some = ActiveLabels.some

\* A step from empty stacks that pushes nothing: pop_closure on empty stacks
PopOnEmpty == closure_stack = <<>> /\ closure_stack' = <<>>

\* C14: after IRCompiler::new and any push_closure and pop_closure calls,
\* pops on empty stacks included, the three stacks have the same length, so
\* closure(), registers() and labels() are all Some or all None; a pop on
\* empty stacks returns None and leaves the three empty.
C14_LockStep ==
    /\ LockStep
    /\ [][/\ LockStep'
          /\ PopOnEmpty => /\ returned' = NoneOf
                           /\ registers' = <<>>
                           /\ labels' = <<>>]_vars

\* pop_closure was called on empty stacks
C14_Witness ==
    /\ closure_stack = <<>>
    /\ registers = <<>>
    /\ labels = <<>>
    /\ returned = NoneOf

=============================================================================
